---- MODULE Spec2Model ----
(***************************************************************************)
(* Model of the text splitters of SW-RAG:                                  *)
(*   packages/rag-ollama-multi-query/splitter/FixedSizeFixedStepSplitter   *)
(*   packages/rag-chroma-private/splitter/FixedSizeFixedStepSplitter       *)
(*   packages/rag-ollama-multi-query/splitter/DynamicSizeFixedStepSplitter *)
(*   packages/rag-chroma-private/splitter/DynamicSizeDynamicStepSplitter   *)
(* A text is a sequence of one-character strings.  A separator is a        *)
(* sequence of characters; a regular expression source is a sequence of    *)
(* tokens, a token being a character or an escaped character.              *)
(***************************************************************************)
EXTENDS Integers, Sequences, FiniteSets, TLC

VARIABLES variant, language, text, separators, keep_separator, is_separator_regex,
          kwargs_chunk_size, chunk_size, step_window, window_size, step_size,
          pc, sep_idx, splits, final_chunks, split_chunks, start,
          returned, error, other

vars == <<variant, language, text, separators, keep_separator, is_separator_regex,
          kwargs_chunk_size, chunk_size, step_window, window_size, step_size,
          pc, sep_idx, splits, final_chunks, split_chunks, start,
          returned, error, other>>

config == <<variant, language, text, separators, keep_separator, is_separator_regex,
            kwargs_chunk_size, chunk_size, step_window, window_size, step_size>>

(***************************************************************************)
(* Bounds of the model.                                                    *)
(***************************************************************************)
MaxWord == 2
MaxRep == 6
MaxSeps == 2
MaxSize == 2
MaxStep == 2
MaxChunks == 3
LongRep == 51

(***************************************************************************)
(* Program constants.                                                      *)
(***************************************************************************)
MinimumLength == 10
LocalChunkSize == 100
DefaultStepSize == 50

(***************************************************************************)
(* Sequence helpers: Python's slices, str.find, "".join and len.           *)
(***************************************************************************)
Min(a, b) == IF a <= b THEN a ELSE b

Max(a, b) == IF a >= b THEN a ELSE b

\* Python's normalisation of a slice bound i for a sequence of length n.
PyIndex(i, n) == IF i < 0 THEN Max(i + n, 0) ELSE Min(i, n)

\* s[a:b] of Python (offsets are 0-based, b exclusive, negative from the end).
Slice(s, a, b) == SubSeq(s, PyIndex(a, Len(s)) + 1, PyIndex(b, Len(s)))

RECURSIVE Concat(_)
Concat(ss) == IF ss = <<>> THEN <<>> ELSE Head(ss) \o Concat(Tail(ss))

RECURSIVE SumLen(_)
SumLen(ss) == IF ss = <<>> THEN 0 ELSE Len(Head(ss)) + SumLen(Tail(ss))

RECURSIVE Rep(_, _)
Rep(w, k) == IF k = 0 THEN <<>> ELSE w \o Rep(w, k - 1)

\* The list returned as it is, empty strings included.
DropEmptyKeepAll(ss) == ss

\* [x for x in ss if x != ""]
DropEmpty(ss) == SelectSeq(ss, LAMBDA x : x # <<>>)

\* text.find(sub, from): least offset p >= from with text[p:p+len(sub)] = sub,
\* -1 when there is none.
Find(s, sub, from) ==
    LET hits == {p \in PyIndex(from, Len(s))..(Len(s) - Len(sub)) :
                    SubSeq(s, p + 1, p + Len(sub)) = sub}
    IN IF hits = {} THEN -1 ELSE CHOOSE p \in hits : \A q \in hits : p <= q

(***************************************************************************)
(* Regular expressions (module re): escape, compile, search, split.        *)
(* The dialect: literal characters, escaped characters, the wildcard ".",  *)
(* capture groups, and a leading "?" (nothing to repeat).                  *)
(***************************************************************************)
\* The characters re.escape puts a backslash before.
Special == {".", "?", "(", ")", " ", "\n"}

EscapedToken(c) ==
    CASE c \notin Special -> c
      [] c = "."  -> "\\."
      [] c = "?"  -> "\\?"
      [] c = "("  -> "\\("
      [] c = ")"  -> "\\)"
      [] c = " "  -> "\\ "
      [] c = "\n" -> "\\\n"

\* re.escape(separator)
re_escape(sep) == [i \in 1..Len(sep) |-> EscapedToken(sep[i])]

IsParen(t) == t \in {"(", ")"}

Depth(src, i) ==
    Cardinality({j \in 1..i : src[j] = "("}) - Cardinality({j \in 1..i : src[j] = ")"})

\* re.compile(src) succeeds.
ValidRegex(src) ==
    /\ \A i \in 1..Len(src) : Depth(src, i) >= 0
    /\ Depth(src, Len(src)) = 0
    /\ \A i \in 1..Len(src) : src[i] = "?" => (i > 1 /\ src[i - 1] # "(")

\* The tokens that consume one character each.
Atoms(src) == SelectSeq(src, LAMBDA t : ~IsParen(t))

AtomsBefore(src, i) == Cardinality({j \in 1..(i - 1) : ~IsParen(src[j])})

\* Index of the ")" closing the "(" at index i.
MatchClose(src, i) ==
    CHOOSE j \in (i + 1)..Len(src) :
        /\ Depth(src, j) = Depth(src, i) - 1
        /\ \A k \in (i + 1)..(j - 1) : Depth(src, k) >= Depth(src, i)

\* The capture groups in order of their "(": <<first atom, last atom>>.
GroupSpans(src) ==
    LET opens == SelectSeq([i \in 1..Len(src) |-> i], LAMBDA i : src[i] = "(")
    IN [g \in 1..Len(opens) |->
          <<AtomsBefore(src, opens[g]) + 1, AtomsBefore(src, MatchClose(src, opens[g]))>>]

\* The characters that are not literals in a pattern of the dialect.
Meta == {".", "?", "(", ")"}

AtomMatches(t, c) ==
    IF t = "." THEN c # "\n"
    ELSE EscapedToken(c) = t \/ (t = c /\ c \notin Meta)

\* The pattern matches s at offset p (0-based).
MatchesAt(src, s, p) ==
    LET atoms == Atoms(src)
    IN /\ p + Len(atoms) <= Len(s)
       /\ \A k \in 1..Len(atoms) : AtomMatches(atoms[k], s[p + k])

\* What one match at offset p contributes to re.split: the groups' texts.
GroupTexts(src, s, p) ==
    LET spans == GroupSpans(src)
    IN [g \in 1..Len(spans) |-> SubSeq(s, p + spans[g][1], p + spans[g][2])]

\* Offset of the leftmost match at or after pos, -1 when there is none.
RECURSIVE NextMatch(_, _, _)
NextMatch(src, s, pos) ==
    IF pos > Len(s) THEN -1
    ELSE IF MatchesAt(src, s, pos) THEN pos
    ELSE NextMatch(src, s, pos + 1)

\* re.split(src, s) from offset pos on, the piece in progress starting at last:
\* the piece before each match, then the match's groups; an empty match
\* is followed by a search one character further.
RECURSIVE SplitFrom(_, _, _, _)
SplitFrom(src, s, pos, last) ==
    LET m == Len(Atoms(src))
        p == NextMatch(src, s, pos)
    IN IF p = -1 THEN <<SubSeq(s, last + 1, Len(s))>>
       ELSE <<SubSeq(s, last + 1, p)>> \o GroupTexts(src, s, p)
              \o (IF m = 0
                  THEN (IF p = Len(s) THEN <<<<>>>>
                        ELSE SplitFrom(src, s, p + 1, p))
                  ELSE SplitFrom(src, s, p + m, p + m))

\* re.search(src, s) is not None
re_search(src, s) == NextMatch(src, s, 0) # -1

re_split(src, s) == SplitFrom(src, s, 0, 0)

\* f"({separator})"
Parenthesized(src) == <<"(">> \o src \o <<")">>

(***************************************************************************)
(* _split_text_with_regex.  A result is [err, val]: the exception raised   *)
(* ("none" when the call returns) and the list returned.                   *)
(***************************************************************************)
Ok(v) == [err |-> "none", val |-> v]

Raise(e) == [err |-> e, val |-> <<>>]

\* [_splits[i] + _splits[i + 1] for i in range(1, len(_splits), 2)], then
\* the odd tail and _splits[0]; _splits[i + 1] is out of range when
\* len(_splits) is even.
KeepPairs(_splits) ==
    LET n == Len(_splits)
        evens == SelectSeq([i \in 1..n |-> i], LAMBDA i : i % 2 = 0)
    IN IF n % 2 = 0 THEN Raise("IndexError")
       ELSE Ok(<<_splits[1]>> \o [k \in 1..Len(evens) |->
                                   _splits[evens[k]] \o _splits[evens[k] + 1]])

\* The function taking the keep_separator branch whatever the flag.
_split_text_with_regexKeepAlways(txt, separator, keep) ==
    IF separator # <<>>
    THEN IF ~ValidRegex(separator) THEN Raise("re.error")
         ELSE LET r == KeepPairs(re_split(Parenthesized(separator), txt))
              IN IF r.err # "none" THEN r ELSE Ok(DropEmpty(r.val))
    ELSE Ok([i \in 1..Len(txt) |-> <<txt[i]>>])

\* The module-level function: separator is the regular expression source.
_split_text_with_regex(txt, separator, keep) ==
    IF separator # <<>>
    THEN IF ~ValidRegex(separator) THEN Raise("re.error")
         ELSE IF keep
              THEN LET r == KeepPairs(re_split(Parenthesized(separator), txt))
                   IN IF r.err # "none" THEN r ELSE Ok(DropEmpty(r.val))
              ELSE Ok(DropEmpty(re_split(separator, txt)))
    ELSE Ok([i \in 1..Len(txt) |-> <<txt[i]>>])

\* The method of DynamicSizeDynamicStepSplitter: no test of the separator.
DSDS_split_text_with_regex(txt, regex_separator, keep) ==
    IF ~ValidRegex(regex_separator) THEN Raise("re.error")
    ELSE IF keep
         THEN LET r == KeepPairs(re_split(Parenthesized(regex_separator), txt))
              IN IF r.err # "none" THEN r ELSE Ok(DropEmpty(r.val))
         ELSE Ok(DropEmpty(re_split(regex_separator, txt)))

\* separator if self._is_separator_regex else re.escape(separator)
RegexSeparator(separator, is_regex) ==
    IF is_regex THEN separator ELSE re_escape(separator)

(***************************************************************************)
(* get_separators_for_language: the separator lists by language tag, each  *)
(* separator as the characters of the string in the source ("u0008" is     *)
(* the backspace character, "u0060" the backquote).                        *)
(***************************************************************************)
LanguageSeparators ==
    [CPP |-> <<
        <<"\n", "c", "l", "a", "s", "s", " ">>,
        <<"\n", "v", "o", "i", "d", " ">>,
        <<"\n", "i", "n", "t", " ">>,
        <<"\n", "f", "l", "o", "a", "t", " ">>,
        <<"\n", "d", "o", "u", "b", "l", "e", " ">>,
        <<"\n", "i", "f", " ">>,
        <<"\n", "f", "o", "r", " ">>,
        <<"\n", "w", "h", "i", "l", "e", " ">>,
        <<"\n", "s", "w", "i", "t", "c", "h", " ">>,
        <<"\n", "c", "a", "s", "e", " ">>,
        <<"\n", "\n">>,
        <<"\n">>,
        <<" ">>,
        <<>>
     >>,
     GO |-> <<
        <<"\n", "f", "u", "n", "c", " ">>,
        <<"\n", "v", "a", "r", " ">>,
        <<"\n", "c", "o", "n", "s", "t", " ">>,
        <<"\n", "t", "y", "p", "e", " ">>,
        <<"\n", "i", "f", " ">>,
        <<"\n", "f", "o", "r", " ">>,
        <<"\n", "s", "w", "i", "t", "c", "h", " ">>,
        <<"\n", "c", "a", "s", "e", " ">>,
        <<"\n", "\n">>,
        <<"\n">>,
        <<" ">>,
        <<>>
     >>,
     JAVA |-> <<
        <<"\n", "c", "l", "a", "s", "s", " ">>,
        <<"\n", "p", "u", "b", "l", "i", "c", " ">>,
        <<"\n", "p", "r", "o", "t", "e", "c", "t", "e", "d", " ">>,
        <<"\n", "p", "r", "i", "v", "a", "t", "e", " ">>,
        <<"\n", "s", "t", "a", "t", "i", "c", " ">>,
        <<"\n", "i", "f", " ">>,
        <<"\n", "f", "o", "r", " ">>,
        <<"\n", "w", "h", "i", "l", "e", " ">>,
        <<"\n", "s", "w", "i", "t", "c", "h", " ">>,
        <<"\n", "c", "a", "s", "e", " ">>,
        <<"\n", "\n">>,
        <<"\n">>,
        <<" ">>,
        <<>>
     >>,
     KOTLIN |-> <<
        <<"\n", "c", "l", "a", "s", "s", " ">>,
        <<"\n", "p", "u", "b", "l", "i", "c", " ">>,
        <<"\n", "p", "r", "o", "t", "e", "c", "t", "e", "d", " ">>,
        <<"\n", "p", "r", "i", "v", "a", "t", "e", " ">>,
        <<"\n", "i", "n", "t", "e", "r", "n", "a", "l", " ">>,
        <<"\n", "c", "o", "m", "p", "a", "n", "i", "o", "n", " ">>,
        <<"\n", "f", "u", "n", " ">>,
        <<"\n", "v", "a", "l", " ">>,
        <<"\n", "v", "a", "r", " ">>,
        <<"\n", "i", "f", " ">>,
        <<"\n", "f", "o", "r", " ">>,
        <<"\n", "w", "h", "i", "l", "e", " ">>,
        <<"\n", "w", "h", "e", "n", " ">>,
        <<"\n", "c", "a", "s", "e", " ">>,
        <<"\n", "e", "l", "s", "e", " ">>,
        <<"\n", "\n">>,
        <<"\n">>,
        <<" ">>,
        <<>>
     >>,
     JS |-> <<
        <<"\n", "f", "u", "n", "c", "t", "i", "o", "n", " ">>,
        <<"\n", "c", "o", "n", "s", "t", " ">>,
        <<"\n", "l", "e", "t", " ">>,
        <<"\n", "v", "a", "r", " ">>,
        <<"\n", "c", "l", "a", "s", "s", " ">>,
        <<"\n", "i", "f", " ">>,
        <<"\n", "f", "o", "r", " ">>,
        <<"\n", "w", "h", "i", "l", "e", " ">>,
        <<"\n", "s", "w", "i", "t", "c", "h", " ">>,
        <<"\n", "c", "a", "s", "e", " ">>,
        <<"\n", "d", "e", "f", "a", "u", "l", "t", " ">>,
        <<"\n", "\n">>,
        <<"\n">>,
        <<" ">>,
        <<>>
     >>,
     TS |-> <<
        <<"\n", "e", "n", "u", "m", " ">>,
        <<"\n", "i", "n", "t", "e", "r", "f", "a", "c", "e", " ">>,
        <<"\n", "n", "a", "m", "e", "s", "p", "a", "c", "e", " ">>,
        <<"\n", "t", "y", "p", "e", " ">>,
        <<"\n", "c", "l", "a", "s", "s", " ">>,
        <<"\n", "f", "u", "n", "c", "t", "i", "o", "n", " ">>,
        <<"\n", "c", "o", "n", "s", "t", " ">>,
        <<"\n", "l", "e", "t", " ">>,
        <<"\n", "v", "a", "r", " ">>,
        <<"\n", "i", "f", " ">>,
        <<"\n", "f", "o", "r", " ">>,
        <<"\n", "w", "h", "i", "l", "e", " ">>,
        <<"\n", "s", "w", "i", "t", "c", "h", " ">>,
        <<"\n", "c", "a", "s", "e", " ">>,
        <<"\n", "d", "e", "f", "a", "u", "l", "t", " ">>,
        <<"\n", "\n">>,
        <<"\n">>,
        <<" ">>,
        <<>>
     >>,
     PHP |-> <<
        <<"\n", "f", "u", "n", "c", "t", "i", "o", "n", " ">>,
        <<"\n", "c", "l", "a", "s", "s", " ">>,
        <<"\n", "i", "f", " ">>,
        <<"\n", "f", "o", "r", "e", "a", "c", "h", " ">>,
        <<"\n", "w", "h", "i", "l", "e", " ">>,
        <<"\n", "d", "o", " ">>,
        <<"\n", "s", "w", "i", "t", "c", "h", " ">>,
        <<"\n", "c", "a", "s", "e", " ">>,
        <<"\n", "\n">>,
        <<"\n">>,
        <<" ">>,
        <<>>
     >>,
     PROTO |-> <<
        <<"\n", "m", "e", "s", "s", "a", "g", "e", " ">>,
        <<"\n", "s", "e", "r", "v", "i", "c", "e", " ">>,
        <<"\n", "e", "n", "u", "m", " ">>,
        <<"\n", "o", "p", "t", "i", "o", "n", " ">>,
        <<"\n", "i", "m", "p", "o", "r", "t", " ">>,
        <<"\n", "s", "y", "n", "t", "a", "x", " ">>,
        <<"\n", "\n">>,
        <<"\n">>,
        <<" ">>,
        <<>>
     >>,
     PYTHON |-> <<
        <<"\n", "c", "l", "a", "s", "s", " ">>,
        <<"\n", "d", "e", "f", " ">>,
        <<"\n", "\t", "d", "e", "f", " ">>,
        <<"\n", "\n">>,
        <<"\n">>,
        <<" ">>,
        <<>>
     >>,
     RST |-> <<
        <<"\n", "=", "+", "\n">>,
        <<"\n", "-", "+", "\n">>,
        <<"\n", "\\", "*", "+", "\n">>,
        <<"\n", "\n", ".", ".", " ", "*", "\n", "\n">>,
        <<"\n", "\n">>,
        <<"\n">>,
        <<" ">>,
        <<>>
     >>,
     RUBY |-> <<
        <<"\n", "d", "e", "f", " ">>,
        <<"\n", "c", "l", "a", "s", "s", " ">>,
        <<"\n", "i", "f", " ">>,
        <<"\n", "u", "n", "l", "e", "s", "s", " ">>,
        <<"\n", "w", "h", "i", "l", "e", " ">>,
        <<"\n", "f", "o", "r", " ">>,
        <<"\n", "d", "o", " ">>,
        <<"\n", "b", "e", "g", "i", "n", " ">>,
        <<"\n", "r", "e", "s", "c", "u", "e", " ">>,
        <<"\n", "\n">>,
        <<"\n">>,
        <<" ">>,
        <<>>
     >>,
     RUST |-> <<
        <<"\n", "f", "n", " ">>,
        <<"\n", "c", "o", "n", "s", "t", " ">>,
        <<"\n", "l", "e", "t", " ">>,
        <<"\n", "i", "f", " ">>,
        <<"\n", "w", "h", "i", "l", "e", " ">>,
        <<"\n", "f", "o", "r", " ">>,
        <<"\n", "l", "o", "o", "p", " ">>,
        <<"\n", "m", "a", "t", "c", "h", " ">>,
        <<"\n", "c", "o", "n", "s", "t", " ">>,
        <<"\n", "\n">>,
        <<"\n">>,
        <<" ">>,
        <<>>
     >>,
     SCALA |-> <<
        <<"\n", "c", "l", "a", "s", "s", " ">>,
        <<"\n", "o", "b", "j", "e", "c", "t", " ">>,
        <<"\n", "d", "e", "f", " ">>,
        <<"\n", "v", "a", "l", " ">>,
        <<"\n", "v", "a", "r", " ">>,
        <<"\n", "i", "f", " ">>,
        <<"\n", "f", "o", "r", " ">>,
        <<"\n", "w", "h", "i", "l", "e", " ">>,
        <<"\n", "m", "a", "t", "c", "h", " ">>,
        <<"\n", "c", "a", "s", "e", " ">>,
        <<"\n", "\n">>,
        <<"\n">>,
        <<" ">>,
        <<>>
     >>,
     SWIFT |-> <<
        <<"\n", "f", "u", "n", "c", " ">>,
        <<"\n", "c", "l", "a", "s", "s", " ">>,
        <<"\n", "s", "t", "r", "u", "c", "t", " ">>,
        <<"\n", "e", "n", "u", "m", " ">>,
        <<"\n", "i", "f", " ">>,
        <<"\n", "f", "o", "r", " ">>,
        <<"\n", "w", "h", "i", "l", "e", " ">>,
        <<"\n", "d", "o", " ">>,
        <<"\n", "s", "w", "i", "t", "c", "h", " ">>,
        <<"\n", "c", "a", "s", "e", " ">>,
        <<"\n", "\n">>,
        <<"\n">>,
        <<" ">>,
        <<>>
     >>,
     MARKDOWN |-> <<
        <<"\n", "#", "{", "1", ",", "6", "}", " ">>,
        <<"u0060", "u0060", "u0060", "\n">>,
        <<"\n", "\\", "*", "\\", "*", "\\", "*", "+", "\n">>,
        <<"\n", "-", "-", "-", "+", "\n">>,
        <<"\n", "_", "_", "_", "+", "\n">>,
        <<"\n", "\n">>,
        <<"\n">>,
        <<" ">>,
        <<>>
     >>,
     LATEX |-> <<
        <<"\n", "\\", "\\", "c", "h", "a", "p", "t", "e", "r", "{">>,
        <<"\n", "\\", "\\", "s", "e", "c", "t", "i", "o", "n", "{">>,
        <<"\n", "\\", "\\", "s", "u", "b", "s", "e", "c", "t", "i", "o", "n", "{">>,
        <<"\n", "\\", "\\", "s", "u", "b", "s", "u", "b", "s", "e", "c", "t", "i", "o", "n", "{">>,
        <<"\n", "\\", "\\", "b", "e", "g", "i", "n", "{", "e", "n", "u", "m", "e", "r", "a", "t", "e", "}">>,
        <<"\n", "\\", "\\", "b", "e", "g", "i", "n", "{", "i", "t", "e", "m", "i", "z", "e", "}">>,
        <<"\n", "\\", "\\", "b", "e", "g", "i", "n", "{", "d", "e", "s", "c", "r", "i", "p", "t", "i", "o", "n", "}">>,
        <<"\n", "\\", "\\", "b", "e", "g", "i", "n", "{", "l", "i", "s", "t", "}">>,
        <<"\n", "\\", "\\", "b", "e", "g", "i", "n", "{", "q", "u", "o", "t", "e", "}">>,
        <<"\n", "\\", "\\", "b", "e", "g", "i", "n", "{", "q", "u", "o", "t", "a", "t", "i", "o", "n", "}">>,
        <<"\n", "\\", "\\", "b", "e", "g", "i", "n", "{", "v", "e", "r", "s", "e", "}">>,
        <<"\n", "\\", "\\", "b", "e", "g", "i", "n", "{", "v", "e", "r", "b", "a", "t", "i", "m", "}">>,
        <<"\n", "\\", "u0008", "e", "g", "i", "n", "{", "a", "l", "i", "g", "n", "}">>,
        <<"$", "$">>,
        <<"$">>,
        <<" ">>,
        <<>>
     >>,
     HTML |-> <<
        <<"<", "b", "o", "d", "y">>,
        <<"<", "d", "i", "v">>,
        <<"<", "p">>,
        <<"<", "b", "r">>,
        <<"<", "l", "i">>,
        <<"<", "h", "1">>,
        <<"<", "h", "2">>,
        <<"<", "h", "3">>,
        <<"<", "h", "4">>,
        <<"<", "h", "5">>,
        <<"<", "h", "6">>,
        <<"<", "s", "p", "a", "n">>,
        <<"<", "t", "a", "b", "l", "e">>,
        <<"<", "t", "r">>,
        <<"<", "t", "d">>,
        <<"<", "t", "h">>,
        <<"<", "u", "l">>,
        <<"<", "o", "l">>,
        <<"<", "h", "e", "a", "d", "e", "r">>,
        <<"<", "f", "o", "o", "t", "e", "r">>,
        <<"<", "n", "a", "v">>,
        <<"<", "h", "e", "a", "d">>,
        <<"<", "s", "t", "y", "l", "e">>,
        <<"<", "s", "c", "r", "i", "p", "t">>,
        <<"<", "m", "e", "t", "a">>,
        <<"<", "t", "i", "t", "l", "e">>,
        <<>>
     >>,
     CSHARP |-> <<
        <<"\n", "i", "n", "t", "e", "r", "f", "a", "c", "e", " ">>,
        <<"\n", "e", "n", "u", "m", " ">>,
        <<"\n", "i", "m", "p", "l", "e", "m", "e", "n", "t", "s", " ">>,
        <<"\n", "d", "e", "l", "e", "g", "a", "t", "e", " ">>,
        <<"\n", "e", "v", "e", "n", "t", " ">>,
        <<"\n", "c", "l", "a", "s", "s", " ">>,
        <<"\n", "a", "b", "s", "t", "r", "a", "c", "t", " ">>,
        <<"\n", "p", "u", "b", "l", "i", "c", " ">>,
        <<"\n", "p", "r", "o", "t", "e", "c", "t", "e", "d", " ">>,
        <<"\n", "p", "r", "i", "v", "a", "t", "e", " ">>,
        <<"\n", "s", "t", "a", "t", "i", "c", " ">>,
        <<"\n", "r", "e", "t", "u", "r", "n", " ">>,
        <<"\n", "i", "f", " ">>,
        <<"\n", "c", "o", "n", "t", "i", "n", "u", "e", " ">>,
        <<"\n", "f", "o", "r", " ">>,
        <<"\n", "f", "o", "r", "e", "a", "c", "h", " ">>,
        <<"\n", "w", "h", "i", "l", "e", " ">>,
        <<"\n", "s", "w", "i", "t", "c", "h", " ">>,
        <<"\n", "b", "r", "e", "a", "k", " ">>,
        <<"\n", "c", "a", "s", "e", " ">>,
        <<"\n", "e", "l", "s", "e", " ">>,
        <<"\n", "t", "r", "y", " ">>,
        <<"\n", "t", "h", "r", "o", "w", " ">>,
        <<"\n", "f", "i", "n", "a", "l", "l", "y", " ">>,
        <<"\n", "c", "a", "t", "c", "h", " ">>,
        <<"\n", "\n">>,
        <<"\n">>,
        <<" ">>,
        <<>>
     >>,
     SOL |-> <<
        <<"\n", "p", "r", "a", "g", "m", "a", " ">>,
        <<"\n", "u", "s", "i", "n", "g", " ">>,
        <<"\n", "c", "o", "n", "t", "r", "a", "c", "t", " ">>,
        <<"\n", "i", "n", "t", "e", "r", "f", "a", "c", "e", " ">>,
        <<"\n", "l", "i", "b", "r", "a", "r", "y", " ">>,
        <<"\n", "c", "o", "n", "s", "t", "r", "u", "c", "t", "o", "r", " ">>,
        <<"\n", "t", "y", "p", "e", " ">>,
        <<"\n", "f", "u", "n", "c", "t", "i", "o", "n", " ">>,
        <<"\n", "e", "v", "e", "n", "t", " ">>,
        <<"\n", "m", "o", "d", "i", "f", "i", "e", "r", " ">>,
        <<"\n", "e", "r", "r", "o", "r", " ">>,
        <<"\n", "s", "t", "r", "u", "c", "t", " ">>,
        <<"\n", "e", "n", "u", "m", " ">>,
        <<"\n", "i", "f", " ">>,
        <<"\n", "f", "o", "r", " ">>,
        <<"\n", "w", "h", "i", "l", "e", " ">>,
        <<"\n", "d", "o", " ", "w", "h", "i", "l", "e", " ">>,
        <<"\n", "a", "s", "s", "e", "m", "b", "l", "y", " ">>,
        <<"\n", "\n">>,
        <<"\n">>,
        <<" ">>,
        <<>>
     >>,
     COBOL |-> <<
        <<"\n", "I", "D", "E", "N", "T", "I", "F", "I", "C", "A", "T", "I", "O", "N", " ", "D", "I", "V", "I", "S", "I", "O", "N", ".">>,
        <<"\n", "E", "N", "V", "I", "R", "O", "N", "M", "E", "N", "T", " ", "D", "I", "V", "I", "S", "I", "O", "N", ".">>,
        <<"\n", "D", "A", "T", "A", " ", "D", "I", "V", "I", "S", "I", "O", "N", ".">>,
        <<"\n", "P", "R", "O", "C", "E", "D", "U", "R", "E", " ", "D", "I", "V", "I", "S", "I", "O", "N", ".">>,
        <<"\n", "W", "O", "R", "K", "I", "N", "G", "-", "S", "T", "O", "R", "A", "G", "E", " ", "S", "E", "C", "T", "I", "O", "N", ".">>,
        <<"\n", "L", "I", "N", "K", "A", "G", "E", " ", "S", "E", "C", "T", "I", "O", "N", ".">>,
        <<"\n", "F", "I", "L", "E", " ", "S", "E", "C", "T", "I", "O", "N", ".">>,
        <<"\n", "I", "N", "P", "U", "T", "-", "O", "U", "T", "P", "U", "T", " ", "S", "E", "C", "T", "I", "O", "N", ".">>,
        <<"\n", "O", "P", "E", "N", " ">>,
        <<"\n", "C", "L", "O", "S", "E", " ">>,
        <<"\n", "R", "E", "A", "D", " ">>,
        <<"\n", "W", "R", "I", "T", "E", " ">>,
        <<"\n", "I", "F", " ">>,
        <<"\n", "E", "L", "S", "E", " ">>,
        <<"\n", "M", "O", "V", "E", " ">>,
        <<"\n", "P", "E", "R", "F", "O", "R", "M", " ">>,
        <<"\n", "U", "N", "T", "I", "L", " ">>,
        <<"\n", "V", "A", "R", "Y", "I", "N", "G", " ">>,
        <<"\n", "A", "C", "C", "E", "P", "T", " ">>,
        <<"\n", "D", "I", "S", "P", "L", "A", "Y", " ">>,
        <<"\n", "S", "T", "O", "P", " ", "R", "U", "N", ".">>,
        <<"\n">>,
        <<" ">>,
        <<>>
     >>]

SupportedLanguages == DOMAIN LanguageSeparators

\* Members of Language that no branch of the chain names.
UnsupportedLanguages == {"C", "LUA"}

Languages == SupportedLanguages \cup UnsupportedLanguages

\* The lookup answering an unnamed tag with the list of the last branch.
get_separators_for_languageLastBranch(lang) ==
    IF lang \in SupportedLanguages THEN Ok(LanguageSeparators[lang])
    ELSE Ok(LanguageSeparators["COBOL"])

\* if language == Language.CPP: return [...] elif ... else: raise ValueError(...)
get_separators_for_language(lang) ==
    IF lang \in SupportedLanguages THEN Ok(LanguageSeparators[lang])
    ELSE Raise("ValueError")

(***************************************************************************)
(* The inputs.                                                             *)
(***************************************************************************)
Variants == {"ollama.FixedSizeFixedStep", "chroma.FixedSizeFixedStep",
             "ollama.DynamicSizeFixedStep", "chroma.DynamicSizeDynamicStep"}

FixedStepVariants == {"ollama.FixedSizeFixedStep", "chroma.FixedSizeFixedStep"}

FilteredVariants == Variants \ {"ollama.FixedSizeFixedStep"}

Alphabet == {"a", "."}

RECURSIVE WordsOfLen(_)
WordsOfLen(n) ==
    IF n = 0 THEN {<<>>}
    ELSE {w \o <<c>> : w \in WordsOfLen(n - 1), c \in Alphabet}

Words == UNION {WordsOfLen(n) : n \in 0..MaxWord}

\* The repetitions of a word, up to twice MaxRep characters.
Texts == {t \in {Rep(w, k) : w \in Words, k \in 1..MaxRep} : Len(t) <= 2 * MaxRep}

\* Texts longer than the chunk size of the splitter that fixes it at 100;
\* they are split with the default separators.
LongTexts == {Rep(w, LongRep) : w \in WordsOfLen(2)}

\* Two runs of "a" around one character: texts whose fragments are longer
\* than the minimum length when joined.
JoinedTexts == {Rep(<<"a">>, MaxRep) \o w \o Rep(<<"a">>, MaxRep) : w \in WordsOfLen(1)}

InitTexts(v) ==
    IF v = "ollama.FixedSizeFixedStep" THEN Texts \cup LongTexts
    ELSE IF v = "chroma.DynamicSizeDynamicStep" THEN Texts \cup JoinedTexts
    ELSE Texts

\* "", ".", "a", "?", "(a)"
Seps == {<<>>, <<".">>, <<"a">>, <<"?">>, <<"(", "a", ")">>}

RECURSIVE SepListsOfLen(_)
SepListsOfLen(n) ==
    IF n = 0 THEN {<<>>}
    ELSE {l \o <<x>> : l \in SepListsOfLen(n - 1), x \in Seps}

\* The lists without a repeated separator.
Distinct(l) == \A i, j \in 1..Len(l) : l[i] = l[j] => i = j

SepLists == {l \in UNION {SepListsOfLen(n) : n \in 0..MaxSeps} : Distinct(l)}

Sizes == (1..MaxSize) \cup {MinimumLength + 1}

Steps == (-1)..MaxStep

WindowSizes == (0..MaxSize) \cup {MinimumLength + 1}

StepSizes == {1, DefaultStepSize}

\* separators or [...] in __init__
DefaultSeparators(v) ==
    IF v = "ollama.FixedSizeFixedStep"
    THEN << <<"\n", "\n">>, <<"\n">>, <<" ">>, <<>>, <<".">>, <<"u3002">>, <<"!">> >>
    ELSE << <<"\n", "\n">>, <<"\n">>, <<".">>, <<"?">>, <<"!">>, <<"u3002">>,
            <<"uFF1F">>, <<"uFF01">> >>

InitSeparators(v, arg) == IF arg = <<>> THEN DefaultSeparators(v) ELSE arg

\* chunk_size among **kwargs: 0 for the splitter that has no use for it,
\* a small size or the local size for the splitter that sets its own.
KwargsChunkSizes(v) ==
    IF v = "chroma.DynamicSizeDynamicStep" THEN {0}
    ELSE IF v = "ollama.FixedSizeFixedStep" THEN {MaxStep, LocalChunkSize}
    ELSE Sizes

\* self._chunk_size after __init__
InitChunkSize(v, size) ==
    IF v = "ollama.FixedSizeFixedStep" THEN LocalChunkSize
    ELSE IF v = "chroma.DynamicSizeDynamicStep" THEN 0
    ELSE size

\* The texts of the most repetitions, which the longest separator lists are
\* applied to.
FullTexts == {Rep(w, MaxRep) : w \in Words} \cup JoinedTexts

\* The runs that range over the longer separator lists: the splitters whose
\* chunks depend on the fragments, at the reference sizes.
ReferenceRun ==
    \/ variant = "chroma.DynamicSizeDynamicStep"
           /\ window_size = MinimumLength + 1 /\ step_size = 1
    \/ variant = "ollama.DynamicSizeFixedStep"
           /\ chunk_size = MinimumLength + 1 /\ step_window = 1

\* The texts that split_text is called with on a splitter built by
\* from_language.
LanguageWords == {<<"a">>, <<"a", " ">>, <<"a", "\n">>}

LanguageTexts == {Rep(w, k) : w \in LanguageWords, k \in 0..MaxRep}

\* The pattern characters outside the dialect of this model; the tables
\* that have none of them are the ones split_text is explored with.
OutsideDialect == {"^", "$", "*", "+", "{", "}", "[", "]", "\\", "|"}

InDialect(seps) ==
    \A i \in 1..Len(seps) : \A j \in 1..Len(seps[i]) : seps[i][j] \notin OutsideDialect

\* A splitter built by its constructor, and split_text called on a text.
InitConstructed ==
    /\ variant \in Variants
    /\ language = "none"
    /\ text \in InitTexts(variant)
    /\ keep_separator \in BOOLEAN
    /\ is_separator_regex \in BOOLEAN
    /\ kwargs_chunk_size \in KwargsChunkSizes(variant)
    /\ text \in LongTexts => kwargs_chunk_size = LocalChunkSize
    /\ chunk_size = InitChunkSize(variant, kwargs_chunk_size)
    /\ step_window \in (IF variant = "chroma.DynamicSizeDynamicStep" THEN {0} ELSE Steps)
    /\ window_size \in (IF variant = "chroma.DynamicSizeDynamicStep" THEN WindowSizes ELSE {0})
    /\ step_size \in (IF variant = "chroma.DynamicSizeDynamicStep" THEN StepSizes ELSE {0})
    /\ \E arg \in SepLists :
           /\ Len(arg) <= 1 \/ (ReferenceRun /\ (Len(arg) < MaxSeps \/ text \in FullTexts))
           /\ text \in LongTexts => arg = <<>>
           /\ separators = InitSeparators(variant, arg)
    /\ pc = "start"
    /\ final_chunks = IF variant = "chroma.DynamicSizeDynamicStep" THEN <<text>> ELSE <<>>

\* from_language(language, keep_separator=..., window_size=..., step_size=...)
\* called, the splitter not built yet.
InitFromLanguage ==
    /\ variant = "chroma.DynamicSizeDynamicStep"
    /\ language \in Languages
    /\ text = <<>>
    /\ keep_separator \in BOOLEAN
    /\ is_separator_regex = FALSE
    /\ kwargs_chunk_size = 0
    /\ chunk_size = 0
    /\ step_window = 0
    /\ window_size = MinimumLength + 1
    /\ step_size = 1
    /\ separators = <<>>
    /\ pc = "new"
    /\ final_chunks = <<>>

\* The splitter v built with the given arguments, and split_text(t) called;
\* size and step are chunk_size and step_window, or window_size and
\* step_size.
Constructed(v, t, arg, keep, is_regex, size, step) ==
    LET dynamic == v = "chroma.DynamicSizeDynamicStep"
    IN /\ variant = v
       /\ language = "none"
       /\ text = t
       /\ separators = InitSeparators(v, arg)
       /\ keep_separator = keep
       /\ is_separator_regex = is_regex
       /\ kwargs_chunk_size = IF dynamic THEN 0 ELSE size
       /\ chunk_size = InitChunkSize(v, size)
       /\ step_window = IF dynamic THEN 0 ELSE step
       /\ window_size = IF dynamic THEN size ELSE 0
       /\ step_size = IF dynamic THEN step ELSE 0
       /\ pc = "start"
       /\ final_chunks = IF dynamic THEN <<t>> ELSE <<>>

\* "a.b.c.d"
DottedText == <<"a", ".", "b", ".", "c", ".", "d">>

\* "Hello world. Goodbye world."
HelloText ==
    <<"H", "e", "l", "l", "o", " ", "w", "o", "r", "l", "d", ".", " ",
      "G", "o", "o", "d", "b", "y", "e", " ", "w", "o", "r", "l", "d", ".">>

\* A text of n characters, sentences of six letters and a full stop, in
\* which the slices at offsets 0, 10 and 20 differ.
ScenarioText(n) == Slice(Rep(<<"a", "b", "c", "d", "e", "f", ".">>, (n \div 7) + 1), 0, n)

\* "bbbbbbbbbbbbabbbbbbbbbbbba", and the patterns ["(a)", "aa"]: the second
\* has no match in the text.
GroupText == Rep(Rep(<<"b">>, 12) \o <<"a">>, 2)

GroupSeparators == << <<"(", "a", ")">>, <<"a", "a">> >>

\* "a.bbbbbbbbbbbbab": the first fragment occurs again inside the second.
SnapText == <<"a", ".">> \o Rep(<<"b">>, 12) \o <<"a", "b">>

\* ["\n\n", "\n", ".", " ", ""]
HelloSeparators == << <<"\n", "\n">>, <<"\n">>, <<".">>, <<" ">>, <<>> >>

\* The calls of the example scenarios: a dotted text split on ".", a text
\* of 100 characters in chunks of 20 by steps of 20, one of 25 characters in
\* chunks of 10 by steps of 10, the two sentences with a window of 15, and
\* a text whose first fragment occurs again inside the second, and a text
\* split by a pattern with a group before a pattern it has no match of.
InitScenario ==
    \/ \E v \in Variants, keep \in BOOLEAN :
           Constructed(v, DottedText, << <<".">> >>, keep, FALSE, MinimumLength + 1, 1)
    \/ \E v \in FixedStepVariants, keep \in BOOLEAN :
           Constructed(v, ScenarioText(100), <<>>, keep, FALSE, 20, 20)
    \/ \E v \in FixedStepVariants, keep \in BOOLEAN :
           Constructed(v, ScenarioText(25), <<>>, keep, FALSE, 10, 10)
    \/ \E keep \in BOOLEAN, step \in StepSizes :
           Constructed("chroma.DynamicSizeDynamicStep", HelloText, HelloSeparators,
                       keep, FALSE, 15, step)
    \/ \E keep \in BOOLEAN :
           Constructed("ollama.DynamicSizeFixedStep", SnapText, << <<".">> >>,
                       keep, FALSE, MinimumLength + 1, 1)
    \/ \E keep \in BOOLEAN :
           Constructed("chroma.DynamicSizeDynamicStep", GroupText, GroupSeparators,
                       keep, TRUE, 1, 1)

\* No second call of split_text is in progress.
NoCall == [shared |-> TRUE, self |-> <<>>, frame |-> [pc |-> "none"]]

Init ==
    /\ InitConstructed \/ InitFromLanguage \/ InitScenario
    /\ sep_idx = 1
    /\ splits = <<>>
    /\ split_chunks = <<>>
    /\ start = 0
    /\ returned = <<>>
    /\ error = "none"
    /\ other = NoCall

(***************************************************************************)
(* from_language, and split_text on the splitter it builds.                *)
(***************************************************************************)
\* separators = cls.get_separators_for_language(language)
\* return cls(separators=separators, is_separator_regex=True, **kwargs)
from_language ==
    /\ pc = "new"
    /\ LET r == get_separators_for_language(language)
       IN IF r.err # "none"
          THEN /\ pc' = "failed"
               /\ error' = r.err
               /\ UNCHANGED <<separators, is_separator_regex>>
          ELSE /\ pc' = "constructed"
               /\ error' = error
               /\ separators' = r.val
               /\ is_separator_regex' = TRUE
    /\ UNCHANGED <<variant, language, text, keep_separator, kwargs_chunk_size,
                   chunk_size, step_window, window_size, step_size, sep_idx, splits,
                   final_chunks, split_chunks, start, returned, other>>

\* return self._split_text(text, self._separators); final_chunks = [text]
split_text ==
    /\ pc = "constructed"
    /\ InDialect(separators)
    /\ \E t \in LanguageTexts :
           /\ text' = t
           /\ final_chunks' = <<t>>
    /\ pc' = "start"
    /\ UNCHANGED <<variant, language, separators, keep_separator, is_separator_regex,
                   kwargs_chunk_size, chunk_size, step_window, window_size, step_size,
                   sep_idx, splits, split_chunks, start, returned, error, other>>

(***************************************************************************)
(* The separator loop of the three fixed-step splitters.                   *)
(***************************************************************************)
\* for separator in separators: ... break, from the i-th separator on.
RECURSIVE FirstSplit(_, _, _, _, _)
FirstSplit(txt, seps, i, is_regex, keep) ==
    IF i > Len(seps) THEN Ok(<<>>)
    ELSE LET regex_separator == RegexSeparator(seps[i], is_regex)
         IN IF ~ValidRegex(regex_separator) THEN Raise("re.error")
            ELSE IF re_search(regex_separator, txt)
                 THEN _split_text_with_regex(txt, regex_separator, keep)
                 ELSE FirstSplit(txt, seps, i + 1, is_regex, keep)

ChooseSeparator ==
    /\ pc = "start"
    /\ variant # "chroma.DynamicSizeDynamicStep"
    /\ LET r == FirstSplit(text, separators, 1, is_separator_regex, keep_separator)
       IN IF r.err # "none"
          THEN /\ pc' = "raised"
               /\ error' = r.err
               /\ splits' = splits
          ELSE /\ pc' = "chunking"
               /\ error' = error
               /\ splits' = IF r.val = <<>> THEN <<text>> ELSE r.val
    /\ UNCHANGED <<config, other, sep_idx, final_chunks, split_chunks, start, returned>>

(***************************************************************************)
(* FiexedSizeFixedStepSplitter._split_text: the range loop.                *)
(***************************************************************************)
\* Variants of the range loop with a slip in it: the start advanced by the
\* chunk size, the slice one character short, the truncated tail chunk
\* skipped, and the range closed at len(text).
RECURSIVE RangeChunksStrideBySize(_, _, _, _)
RangeChunksStrideBySize(txt, from, size, step) ==
    IF from >= Len(txt) THEN <<>>
    ELSE <<Slice(txt, from, from + size)>> \o RangeChunksStrideBySize(txt, from + size, size, step)

RECURSIVE RangeChunksShortSlice(_, _, _, _)
RangeChunksShortSlice(txt, from, size, step) ==
    IF from >= Len(txt) THEN <<>>
    ELSE <<Slice(txt, from, from + size - 1)>> \o RangeChunksShortSlice(txt, from + step, size, step)

RECURSIVE RangeChunksDropTail(_, _, _, _)
RangeChunksDropTail(txt, from, size, step) ==
    IF from + size > Len(txt) THEN <<>>
    ELSE <<Slice(txt, from, from + size)>> \o RangeChunksDropTail(txt, from + step, size, step)

RECURSIVE RangeChunksClosedRange(_, _, _, _)
RangeChunksClosedRange(txt, from, size, step) ==
    IF from > Len(txt) THEN <<>>
    ELSE <<Slice(txt, from, from + size)>> \o RangeChunksClosedRange(txt, from + step, size, step)

\* for start in range(from, len(text), step): append text[start:start+size]
RECURSIVE RangeChunks(_, _, _, _)
RangeChunks(txt, from, size, step) ==
    IF from >= Len(txt) THEN <<>>
    ELSE <<Slice(txt, from, from + size)>> \o RangeChunks(txt, from + step, size, step)

FixedStepChunks(txt, size, step) ==
    IF step = 0 THEN Raise("ValueError")
    ELSE IF step < 0 THEN Ok(<<>>)
    ELSE Ok(RangeChunks(txt, 0, size, step))

FixedStepLoop ==
    /\ pc = "chunking"
    /\ variant \in FixedStepVariants
    /\ LET r == FixedStepChunks(text, chunk_size, step_window)
       IN IF r.err # "none"
          THEN /\ pc' = "raised"
               /\ error' = r.err
               /\ final_chunks' = final_chunks
          ELSE /\ pc' = "chunked"
               /\ error' = error
               /\ final_chunks' = r.val
    /\ UNCHANGED <<config, other, sep_idx, splits, split_chunks, start, returned>>

(***************************************************************************)
(* DynamicSizeFixedStepSplitter._split_text: the while loop, one action    *)
(* per iteration.                                                          *)
(***************************************************************************)
\* The end moved to the first fragment found at or after the start offset,
\* before start + chunk_size too.
RECURSIVE SnapEndAtStart(_, _, _, _, _)
SnapEndAtStart(txt, sps, i, from, end) ==
    IF i > Len(sps) THEN end
    ELSE LET split_start == Find(txt, sps[i], from)
         IN IF split_start >= from THEN split_start + Len(sps[i])
            ELSE SnapEndAtStart(txt, sps, i + 1, from, end)

\* for split in splits: ... if split_start >= end: end = ...; break
RECURSIVE SnapEnd(_, _, _, _, _)
SnapEnd(txt, sps, i, from, end) ==
    IF i > Len(sps) THEN end
    ELSE LET split_start == Find(txt, sps[i], from)
         IN IF split_start >= end THEN split_start + Len(sps[i])
            ELSE SnapEnd(txt, sps, i + 1, from, end)

DynamicSizeChunk(txt, sps, from, size) ==
    Slice(txt, from, SnapEnd(txt, sps, 1, from, from + size))

DynamicSizeStep ==
    /\ pc = "chunking"
    /\ variant = "ollama.DynamicSizeFixedStep"
    /\ start < Len(text)
    /\ step_window >= 1 \/ Len(final_chunks) < MaxChunks
    /\ final_chunks' = Append(final_chunks, DynamicSizeChunk(text, splits, start, chunk_size))
    /\ start' = start + step_window
    /\ UNCHANGED <<config, other, pc, sep_idx, splits, split_chunks, returned, error>>

\* The loop left after its first iteration whatever the offset.
DynamicSizeExitEarly ==
    /\ pc = "chunking"
    /\ variant = "ollama.DynamicSizeFixedStep"
    /\ ~(start < Len(text)) \/ final_chunks # <<>>
    /\ pc' = "chunked"
    /\ UNCHANGED <<config, other, sep_idx, splits, final_chunks, split_chunks, start, returned, error>>

DynamicSizeExit ==
    /\ pc = "chunking"
    /\ variant = "ollama.DynamicSizeFixedStep"
    /\ ~(start < Len(text))
    /\ pc' = "chunked"
    /\ UNCHANGED <<config, other, sep_idx, splits, final_chunks, split_chunks, start, returned, error>>

(***************************************************************************)
(* DynamicSizeDynamicStepSplitter._split_text: one action per separator    *)
(* pass, then the fallback and the window loop.                            *)
(***************************************************************************)
\* for chunk in final_chunks: ... new_chunks.extend(splits)
RECURSIVE PassOver(_, _, _)
PassOver(chunks, regex_separator, keep) ==
    IF chunks = <<>> THEN Ok(<<>>)
    ELSE IF ~ValidRegex(regex_separator) THEN Raise("re.error")
    ELSE LET rest == PassOver(Tail(chunks), regex_separator, keep)
         IN IF re_search(regex_separator, Head(chunks))
            THEN LET r == DSDS_split_text_with_regex(Head(chunks), regex_separator, keep)
                 IN IF r.err # "none" THEN r
                    ELSE IF rest.err # "none" THEN rest
                    ELSE Ok(r.val \o rest.val)
            ELSE rest

\* The pass that applies its separator again while the list changes.
SeparatorPassRepeat ==
    /\ pc = "start"
    /\ variant = "chroma.DynamicSizeDynamicStep"
    /\ sep_idx <= Len(separators)
    /\ LET r == PassOver(final_chunks,
                         RegexSeparator(separators[sep_idx], is_separator_regex),
                         keep_separator)
       IN IF r.err # "none"
          THEN /\ pc' = "raised"
               /\ error' = r.err
               /\ UNCHANGED <<final_chunks, sep_idx>>
          ELSE /\ final_chunks' = r.val
               /\ sep_idx' = IF r.val = final_chunks THEN sep_idx + 1 ELSE sep_idx
               /\ UNCHANGED <<pc, error>>
    /\ UNCHANGED <<config, other, splits, split_chunks, start, returned>>

SeparatorPass ==
    /\ pc = "start"
    /\ variant = "chroma.DynamicSizeDynamicStep"
    /\ sep_idx <= Len(separators)
    /\ LET r == PassOver(final_chunks,
                         RegexSeparator(separators[sep_idx], is_separator_regex),
                         keep_separator)
       IN IF r.err # "none"
          THEN /\ pc' = "raised"
               /\ error' = r.err
               /\ UNCHANGED <<final_chunks, sep_idx>>
          ELSE /\ final_chunks' = r.val
               /\ sep_idx' = sep_idx + 1
               /\ UNCHANGED <<pc, error>>
    /\ UNCHANGED <<config, other, splits, split_chunks, start, returned>>

\* The window loop with a strict comparison against the window size.
RECURSIVE AccumulateStrict(_, _, _, _, _)
AccumulateStrict(frags, start_index, total_length, temp_chunk, size) ==
    IF start_index > Len(frags) THEN <<>>
    ELSE LET total == total_length + Len(frags[start_index])
             temp == temp_chunk \o frags[start_index]
         IN IF total > size THEN <<temp>>
            ELSE AccumulateStrict(frags, start_index + 1, total, temp, size)

\* while start_index < len(final_chunks): ... from start_index on
RECURSIVE Accumulate(_, _, _, _, _)
Accumulate(frags, start_index, total_length, temp_chunk, size) ==
    IF start_index > Len(frags) THEN <<>>
    ELSE LET total == total_length + Len(frags[start_index])
             temp == temp_chunk \o frags[start_index]
         IN IF total >= size THEN <<temp>>
            ELSE Accumulate(frags, start_index + 1, total, temp, size)

\* for index, chunk in enumerate(final_chunks): ... from index on
RECURSIVE WindowChunks(_, _, _)
WindowChunks(frags, index, size) ==
    IF index > Len(frags) THEN <<>>
    ELSE Accumulate(frags, index, 0, <<>>, size) \o WindowChunks(frags, index + 1, size)

\* The window loop taking every step-th start index, and the fallback
\* followed by that loop.
RECURSIVE WindowChunksByStep(_, _, _, _)
WindowChunksByStep(frags, index, size, step) ==
    IF index > Len(frags) THEN <<>>
    ELSE Accumulate(frags, index, 0, <<>>, size)
             \o WindowChunksByStep(frags, index + Max(step, 1), size, step)

AssembleByStep ==
    /\ pc = "start"
    /\ variant = "chroma.DynamicSizeDynamicStep"
    /\ sep_idx > Len(separators)
    /\ final_chunks' = IF final_chunks = <<>> THEN <<text>> ELSE final_chunks
    /\ split_chunks' = WindowChunksByStep(final_chunks', 1, window_size, step_size)
    /\ pc' = "chunked"
    /\ UNCHANGED <<config, other, sep_idx, splits, start, returned, error>>

Assemble ==
    /\ pc = "start"
    /\ variant = "chroma.DynamicSizeDynamicStep"
    /\ sep_idx > Len(separators)
    /\ final_chunks' = IF final_chunks = <<>> THEN <<text>> ELSE final_chunks
    /\ split_chunks' = WindowChunks(final_chunks', 1, window_size)
    /\ pc' = "chunked"
    /\ UNCHANGED <<config, other, sep_idx, splits, start, returned, error>>

(***************************************************************************)
(* The end of _split_text: the filter, and the return.                     *)
(***************************************************************************)
\* A filter that returns the chunks it keeps in reverse order.
FilterShortReversed(chunks) ==
    LET kept == SelectSeq(chunks, LAMBDA chunk : Len(chunk) > MinimumLength)
    IN [k \in 1..Len(kept) |-> kept[Len(kept) + 1 - k]]

\* A filter that keeps the chunks of exactly the minimum length.
FilterShortInclusive(chunks) == SelectSeq(chunks, LAMBDA chunk : Len(chunk) >= MinimumLength)

\* [chunk for chunk in chunks if len(chunk) > 10]
FilterShort(chunks) == SelectSeq(chunks, LAMBDA chunk : Len(chunk) > MinimumLength)

\* The list the chunk loop has produced.
Emitted == IF variant = "chroma.DynamicSizeDynamicStep" THEN split_chunks ELSE final_chunks

FilterChunks ==
    /\ pc = "chunked"
    /\ variant \in FilteredVariants
    /\ returned' = FilterShort(Emitted)
    /\ pc' = "done"
    /\ UNCHANGED <<config, other, sep_idx, splits, final_chunks, split_chunks, start, error>>

ReturnChunks ==
    /\ pc = "chunked"
    /\ variant = "ollama.FixedSizeFixedStep"
    /\ returned' = final_chunks
    /\ pc' = "done"
    /\ UNCHANGED <<config, other, sep_idx, splits, final_chunks, split_chunks, start, error>>

Next ==
    \/ from_language
    \/ split_text
    \/ ChooseSeparator
    \/ FixedStepLoop
    \/ DynamicSizeStep
    \/ DynamicSizeExit
    \/ SeparatorPass
    \/ Assemble
    \/ FilterChunks
    \/ ReturnChunks

Spec == Init /\ [][Next]_vars

(***************************************************************************)
(* A call of DynamicSizeFixedStepSplitter.split_text that is not suspended *)
(* for ever in its while loop or before its filter.                        *)
(***************************************************************************)
LoopTexts == {Rep(w, k) : w \in WordsOfLen(2), k \in {1, MaxRep}}

LoopInit ==
    /\ \E t \in LoopTexts, arg \in {<< <<".">> >>, << <<"a">> >>, << <<"(", "a", ")">> >>},
          keep \in BOOLEAN, is_regex \in BOOLEAN, size \in Sizes, step \in Steps :
           Constructed("ollama.DynamicSizeFixedStep", t, arg, keep, is_regex, size, step)
    /\ sep_idx = 1
    /\ splits = <<>>
    /\ split_chunks = <<>>
    /\ start = 0
    /\ returned = <<>>
    /\ error = "none"
    /\ other = NoCall

LoopNext ==
    \/ ChooseSeparator
    \/ DynamicSizeStep
    \/ DynamicSizeExit
    \/ FilterChunks

LoopSpec ==
    /\ LoopInit
    /\ [][LoopNext]_vars
    /\ WF_vars(DynamicSizeStep)
    /\ WF_vars(DynamicSizeExit)
    /\ WF_vars(FilterChunks)

(***************************************************************************)
(* Two calls of split_text at a time.  The first call runs on the          *)
(* variables above; the second has its local variables in other.frame and  *)
(* runs on the same splitter object, or on one of its own in other.self.   *)
(***************************************************************************)
\* The attributes of the splitter object of the first call.
Self ==
    [variant |-> variant, separators |-> separators, keep_separator |-> keep_separator,
     is_separator_regex |-> is_separator_regex, chunk_size |-> chunk_size,
     step_window |-> step_window, window_size |-> window_size, step_size |-> step_size]

\* The local variables of the first call.
Frame ==
    [text |-> text, pc |-> pc, sep_idx |-> sep_idx, splits |-> splits,
     final_chunks |-> final_chunks, split_chunks |-> split_chunks, start |-> start,
     returned |-> returned, error |-> error]

\* The local variables at the entry of _split_text(t, self._separators).
NewFrame(self, t) ==
    [text |-> t, pc |-> "start", sep_idx |-> 1, splits |-> <<>>,
     final_chunks |-> IF self.variant = "chroma.DynamicSizeDynamicStep" THEN <<t>> ELSE <<>>,
     split_chunks |-> <<>>, start |-> 0, returned |-> <<>>, error |-> "none"]

\* A step of _split_text in which the loop offset is the one of the first
\* call, as if start were kept on the module and not in the call.
_split_textSharedStart(self, f) ==
    IF self.variant = "chroma.DynamicSizeDynamicStep"
    THEN IF f.pc = "start"
         THEN IF f.sep_idx <= Len(self.separators)
              THEN LET r == PassOver(f.final_chunks,
                                     RegexSeparator(self.separators[f.sep_idx],
                                                    self.is_separator_regex),
                                     self.keep_separator)
                   IN IF r.err # "none"
                      THEN [f EXCEPT !.pc = "raised", !.error = r.err]
                      ELSE [f EXCEPT !.final_chunks = r.val, !.sep_idx = @ + 1]
              ELSE LET frags == IF f.final_chunks = <<>> THEN <<f.text>> ELSE f.final_chunks
                   IN [f EXCEPT !.final_chunks = frags,
                                !.split_chunks = WindowChunks(frags, 1, self.window_size),
                                !.pc = "chunked"]
         ELSE IF f.pc = "chunked"
         THEN [f EXCEPT !.returned = FilterShort(f.split_chunks), !.pc = "done"]
         ELSE f
    ELSE IF f.pc = "start"
         THEN LET r == FirstSplit(f.text, self.separators, 1, self.is_separator_regex,
                                  self.keep_separator)
              IN IF r.err # "none"
                 THEN [f EXCEPT !.pc = "raised", !.error = r.err]
                 ELSE [f EXCEPT !.splits = IF r.val = <<>> THEN <<f.text>> ELSE r.val,
                                !.pc = "chunking"]
         ELSE IF f.pc = "chunking"
         THEN IF start < Len(f.text)
              THEN [f EXCEPT !.final_chunks =
                                 Append(@, DynamicSizeChunk(f.text, f.splits, start,
                                                            self.chunk_size)),
                             !.start = start + self.step_window]
              ELSE [f EXCEPT !.pc = "chunked"]
         ELSE IF f.pc = "chunked"
         THEN [f EXCEPT !.returned = FilterShort(f.final_chunks), !.pc = "done"]
         ELSE f

\* One step of _split_text of the two splitters with a separator loop of
\* their own, on the object self and the local variables f: a separator
\* pass, the fallback with the window loop, the choice of the separator, an
\* iteration of the while loop, or the filter.
_split_text(self, f) ==
    IF self.variant = "chroma.DynamicSizeDynamicStep"
    THEN IF f.pc = "start"
         THEN IF f.sep_idx <= Len(self.separators)
              THEN LET r == PassOver(f.final_chunks,
                                     RegexSeparator(self.separators[f.sep_idx],
                                                    self.is_separator_regex),
                                     self.keep_separator)
                   IN IF r.err # "none"
                      THEN [f EXCEPT !.pc = "raised", !.error = r.err]
                      ELSE [f EXCEPT !.final_chunks = r.val, !.sep_idx = @ + 1]
              ELSE LET frags == IF f.final_chunks = <<>> THEN <<f.text>> ELSE f.final_chunks
                   IN [f EXCEPT !.final_chunks = frags,
                                !.split_chunks = WindowChunks(frags, 1, self.window_size),
                                !.pc = "chunked"]
         ELSE IF f.pc = "chunked"
         THEN [f EXCEPT !.returned = FilterShort(f.split_chunks), !.pc = "done"]
         ELSE f
    ELSE IF f.pc = "start"
         THEN LET r == FirstSplit(f.text, self.separators, 1, self.is_separator_regex,
                                  self.keep_separator)
              IN IF r.err # "none"
                 THEN [f EXCEPT !.pc = "raised", !.error = r.err]
                 ELSE [f EXCEPT !.splits = IF r.val = <<>> THEN <<f.text>> ELSE r.val,
                                !.pc = "chunking"]
         ELSE IF f.pc = "chunking"
         THEN IF f.start < Len(f.text)
              THEN [f EXCEPT !.final_chunks =
                                 Append(@, DynamicSizeChunk(f.text, f.splits, f.start,
                                                            self.chunk_size)),
                             !.start = f.start + self.step_window]
              ELSE [f EXCEPT !.pc = "chunked"]
         ELSE IF f.pc = "chunked"
         THEN [f EXCEPT !.returned = FilterShort(f.final_chunks), !.pc = "done"]
         ELSE f

OtherSelf == IF other.shared THEN Self ELSE other.self

OtherCallStep ==
    /\ other.frame.pc \in {"start", "chunking", "chunked"}
    /\ other' = [other EXCEPT !.frame = _split_text(OtherSelf, other.frame)]
    /\ UNCHANGED <<config, pc, sep_idx, splits, final_chunks, split_chunks, start,
                   returned, error>>

\* The calls that are run two at a time.
ConcurrentVariants == {"ollama.DynamicSizeFixedStep", "chroma.DynamicSizeDynamicStep"}

ConcurrentTexts == {Rep(w, MaxRep) : w \in {<<"a", ".">>, <<".", "a">>}}

ConcurrentSeparators == {<< <<".">> >>, << <<"a">> >>, << <<"(", "a", ")">> >>}

ConcurrentInit ==
    /\ \E v \in ConcurrentVariants, t \in ConcurrentTexts, arg \in ConcurrentSeparators,
          keep \in BOOLEAN, is_regex \in BOOLEAN :
           Constructed(v, t, arg, keep, is_regex, MinimumLength + 1, MaxStep)
    /\ sep_idx = 1
    /\ splits = <<>>
    /\ split_chunks = <<>>
    /\ start = 0
    /\ returned = <<>>
    /\ error = "none"
    /\ \E shared \in BOOLEAN, v \in ConcurrentVariants, t \in ConcurrentTexts,
          arg \in ConcurrentSeparators :
           LET self == IF shared THEN Self
                       ELSE [Self EXCEPT !.variant = v, !.separators = arg,
                                         !.chunk_size = MinimumLength + 1,
                                         !.step_window = 1,
                                         !.window_size = MinimumLength + 1]
           IN /\ shared => (v = variant /\ arg = separators)
              /\ other = [shared |-> shared, self |-> self, frame |-> NewFrame(self, t)]

ConcurrentNext ==
    \/ ChooseSeparator
    \/ DynamicSizeStep
    \/ DynamicSizeExit
    \/ SeparatorPass
    \/ Assemble
    \/ FilterChunks
    \/ OtherCallStep

ConcurrentSpec == ConcurrentInit /\ [][ConcurrentNext]_vars

(***************************************************************************)
(* Properties.                                                             *)
(***************************************************************************)
\* The configuration as the specification names it.
TargetSize == IF variant = "chroma.DynamicSizeDynamicStep" THEN window_size ELSE chunk_size

Step == IF variant = "chroma.DynamicSizeDynamicStep" THEN step_size ELSE step_window

InvalidConfiguration == TargetSize <= 0 \/ Step <= 0 \/ MinimumLength >= TargetSize

HasInvalidSeparator ==
    \E i \in 1..Len(separators) :
        ~ValidRegex(RegexSeparator(separators[i], is_separator_regex))

ValidConfiguration == ~InvalidConfiguration /\ ~HasInvalidSeparator

\* C1: with keep_separator the fragments that _split_text_with_regex returns
\* for the chosen separator, concatenated in order, are the input text, for
\* every text and every literal or regular-expression separator (the call
\* returns fragments, it does not fail).
C1_RegexSplitLossless ==
    (variant # "chroma.DynamicSizeDynamicStep" /\ keep_separator)
        => /\ pc = "chunking" => Concat(splits) = text
           /\ error # "IndexError"

\* C2: fixed-step mode emits, before filtering, exactly one chunk for each
\* start 0, step, 2*step, ... below len(text), in that order, and the chunk
\* is text[start : start+targetSize] truncated at the end of the text.
FixedStarts == {st \in 0..(Len(text) - 1) : st % step_window = 0}

RangeLen(f, i, j) == SumLen(SubSeq(f, i, j))

SnappedStarts(f, size) ==
    SelectSeq([i \in 1..Len(f) |-> i], LAMBDA i : RangeLen(f, i, Len(f)) >= size)

SnappedStop(f, i, size) ==
    CHOOSE j \in i..Len(f) :
        /\ RangeLen(f, i, j) >= size
        /\ \A k \in i..(j - 1) : RangeLen(f, i, k) < size

C3_BoundarySnappedChunks ==
    (pc = "chunked" /\ variant = "chroma.DynamicSizeDynamicStep")
        => LET starts == SnappedStarts(final_chunks, window_size)
           IN /\ Len(split_chunks) = Len(starts)
              /\ \A k \in 1..Len(starts) :
                     split_chunks[k] =
                         Concat(SubSeq(final_chunks, starts[k],
                                       SnappedStop(final_chunks, starts[k], window_size)))

C3_Witness ==
    /\ pc = "chunked"
    /\ variant = "chroma.DynamicSizeDynamicStep"
    /\ Len(split_chunks) >= 2
    /\ Len(split_chunks) < Len(final_chunks)
    /\ Len(split_chunks[1]) > Len(final_chunks[1])
    /\ Len(split_chunks[1]) > window_size

\* C4: no chunk that split_text returns has length <= 10, in every splitter.
C4_MinimumLength ==
    pc = "done" => \A k \in 1..Len(returned) : Len(returned[k]) > MinimumLength

C7_PassesLossless ==
    (variant = "chroma.DynamicSizeDynamicStep" /\ keep_separator /\ pc = "start")
        => Concat(final_chunks) = text

\* C8: split_text with a non-positive targetSize, a non-positive step or
\* minimumLength >= targetSize fails with an InvalidConfigurationError before
\* any processing and returns no chunks.
C8_InvalidConfigurationRejected ==
    InvalidConfiguration
        => \/ pc = "start" /\ sep_idx = 1
           \/ pc = "raised" /\ error = "InvalidConfigurationError"

\* C9: when an entry of the separator list is an unparseable pattern,
\* split_text fails with an invalid-separator error before any splitting or
\* chunking, whatever the position of the entry.
C9_InvalidSeparatorRejected ==
    (HasInvalidSeparator /\ ~InvalidConfiguration)
        => \/ pc = "start" /\ sep_idx = 1
           \/ pc = "raised" /\ error = "re.error" /\ sep_idx = 1

IsSubstring(chunk, txt) ==
    /\ chunk # <<>>
    /\ \E a \in 0..(Len(txt) - Len(chunk)) : SubSeq(txt, a + 1, a + Len(chunk)) = chunk

\* C11: every chunk that split_text returns is a contiguous substring of the
\* text, text[a:b] with 0 <= a < b <= len(text), in every splitter and for
\* every configuration.
C11_ChunksAreSubstrings ==
    pc = "done" => \A k \in 1..Len(returned) : IsSubstring(returned[k], text)

\* C12: every separator profile the splitters use, each list that
\* get_separators_for_language returns and each default list used when no
\* list is supplied, has the empty string as its last element.
UsesProfile ==
    \/ language # "none" /\ pc \notin {"new", "failed"}
    \/ language = "none" /\ separators = DefaultSeparators(variant)

C12_ProfilesEndWithEmpty ==
    UsesProfile => separators # <<>> /\ separators[Len(separators)] = <<>>

\* C13: for every supported tag from_language obtains the separator list of
\* that tag from get_separators_for_language; for every other tag the lookup
\* fails with ValueError and no list is returned, no splitter built.
C13_ProfileLookup ==
    (language # "none" /\ pc # "new")
        => IF language \in SupportedLanguages
           THEN /\ pc # "failed"
                /\ error # "ValueError"
                /\ separators = LanguageSeparators[language]
                /\ is_separator_regex
           ELSE /\ pc = "failed"
                /\ error = "ValueError"
                /\ separators = <<>>

C13_Witness ==
    /\ language \in UnsupportedLanguages
    /\ pc = "failed"
    /\ error = "ValueError"
    /\ separators = <<>>

\* C14: for every text and every separator list the recursive splitter
\* performs at most len(separators) separator passes, one per entry, and
\* the call then comes to its end: the number of steps left to it, a
\* natural number, decreases with every step it takes.
Passes == sep_idx - 1

StepsLeft ==
    CASE pc = "start" -> (Len(separators) - Passes) + 2
      [] pc = "chunked" -> 1
      [] OTHER -> 0

C14_RecursiveSplittingTerminates ==
    /\ [](variant = "chroma.DynamicSizeDynamicStep"
            => Passes <= Len(separators) /\ StepsLeft >= 0)
    /\ [][(variant = "chroma.DynamicSizeDynamicStep" /\ pc \in {"start", "chunked"})
            => /\ StepsLeft' < StepsLeft
               /\ Passes' \in {Passes, Passes + 1}
               /\ pc' \in {"chunked", "done"} => Passes' = Len(separators)]_vars

C14_Witness ==
    /\ variant = "chroma.DynamicSizeDynamicStep"
    /\ pc = "done"
    /\ Len(separators) >= 2
    /\ Passes = Len(separators)
    /\ returned # <<>>

\* The separator that the separator loop of a fixed-step splitter stops at:
\* the first one that re.search finds in the text, 0 when there is none.
Searched(i) ==
    LET regex_separator == RegexSeparator(separators[i], is_separator_regex)
    IN ValidRegex(regex_separator) /\ re_search(regex_separator, text)

ChosenIndex ==
    LET found == {i \in 1..Len(separators) : Searched(i)}
    IN IF found = {} THEN 0 ELSE CHOOSE i \in found : \A j \in found : i <= j

\* The pieces of txt between successive occurrences of the literal sep,
\* by str.find from offset from on.
RECURSIVE PiecesFrom(_, _, _)
PiecesFrom(txt, sep, from) ==
    LET p == Find(txt, sep, from)
    IN IF p = -1 THEN <<Slice(txt, from, Len(txt))>>
       ELSE <<Slice(txt, from, p)>> \o PiecesFrom(txt, sep, p + Len(sep))

Characters(txt) == [i \in 1..Len(txt) |-> <<txt[i]>>]

LiteralPieces(txt, sep) ==
    IF sep = <<>> THEN Characters(txt)
    ELSE SelectSeq(PiecesFrom(txt, sep, 0), LAMBDA piece : piece # <<>>)

\* C15: without keep_separator and for a literal separator, the regex
\* splitter returns exactly the non-empty pieces of the text between
\* successive non-overlapping occurrences of the separator, in order, and no
\* fragment contains the separator; "a.b.c.d" split on "." gives
\* ["a", "b", "c", "d"].
C15_LiteralSeparatorDiscarded ==
    (~keep_separator /\ ~is_separator_regex)
        => /\ (pc = "chunking" /\ ChosenIndex # 0)
                => LET sep == separators[ChosenIndex]
                       pieces == LiteralPieces(text, sep)
                   IN /\ splits = IF pieces = <<>> THEN <<text>> ELSE pieces
                      /\ sep # <<>> => \A k \in 1..Len(pieces) : Find(pieces[k], sep, 0) = -1
           /\ (pc = "start" /\ sep_idx = 2 /\ Find(text, separators[1], 0) # -1)
                => final_chunks = LiteralPieces(text, separators[1])
           /\ (pc = "chunking" /\ text = DottedText /\ separators = << <<".">> >>)
                => splits = << <<"a">>, <<"b">>, <<"c">>, <<"d">> >>

C15_Witness ==
    /\ variant = "ollama.DynamicSizeFixedStep"
    /\ ~keep_separator
    /\ ~is_separator_regex
    /\ pc = "chunking"
    /\ text = DottedText
    /\ separators = << <<".">> >>
    /\ splits = << <<"a">>, <<"b">>, <<"c">>, <<"d">> >>

\* C16: with keep_separator every fragment that the regex splitter returns,
\* except the first, is a matched separator followed by the text up to the
\* next match: the separator goes in front of the segment that follows it,
\* never behind the segment it ends.
SeparatorThenText(fragment, regex_separator) ==
    LET m == Len(Atoms(regex_separator))
    IN IF m = 0 THEN Len(fragment) = 1
       ELSE /\ MatchesAt(regex_separator, fragment, 0)
            /\ NextMatch(regex_separator, fragment, m) = -1

C16_SeparatorPrepended ==
    keep_separator
        => /\ (pc = "chunking" /\ ChosenIndex # 0 /\ splits # <<text>>)
                => \A k \in 2..Len(splits) :
                       SeparatorThenText(splits[k],
                           RegexSeparator(separators[ChosenIndex], is_separator_regex))
           /\ (pc = "start" /\ sep_idx = 2)
                => \A k \in 2..Len(final_chunks) :
                       SeparatorThenText(final_chunks[k],
                           RegexSeparator(separators[1], is_separator_regex))

\* C17: no fragment that the regex splitter returns is the empty string,
\* for every text, separator and keep_separator, also when the text begins
\* or ends with the separator or has adjacent separators.
C17_NoEmptyFragment ==
    /\ (pc = "chunking" /\ splits # <<text>>)
            => \A k \in 1..Len(splits) : splits[k] # <<>>
    /\ (variant = "chroma.DynamicSizeDynamicStep" /\ pc = "start" /\ sep_idx >= 2)
            => \A k \in 1..Len(final_chunks) : final_chunks[k] # <<>>

C17_Witness ==
    /\ variant = "ollama.DynamicSizeFixedStep"
    /\ pc = "chunking"
    /\ ~keep_separator
    /\ ~is_separator_regex
    /\ separators = << <<".">> >>
    /\ Len(text) >= 4
    /\ text[1] = "."
    /\ Len(splits) >= 2

\* ceil(n / s)
CeilDiv(n, s) == (n + s - 1) \div s

\* C18: in a fixed-size/fixed-step splitter asked for a chunk size s with a
\* step of the same s, the chunks of the loop are the successive disjoint
\* slices text[(k-1)s : ks], their concatenation in order is the text and
\* there are ceil(len(text) / s) of them; a text of 100 characters with size
\* 20 and step 20 gives 5 chunks.
C18_DisjointTiling ==
    (/\ variant \in FixedStepVariants
     /\ pc = "chunked"
     /\ kwargs_chunk_size >= 1
     /\ step_window = kwargs_chunk_size)
        => LET s == kwargs_chunk_size
           IN /\ Len(final_chunks) = CeilDiv(Len(text), s)
              /\ \A k \in 1..Len(final_chunks) :
                     final_chunks[k] = Slice(text, (k - 1) * s, Min(k * s, Len(text)))
              /\ Concat(final_chunks) = text
              /\ (Len(text) = 100 /\ s = 20) => Len(final_chunks) = 5

\* The call of the scenario of C19: the filtering fixed-size/fixed-step
\* splitter with chunk size 10 and step 10 on a text of 25 characters.
FilterScenario ==
    /\ variant = "chroma.FixedSizeFixedStep"
    /\ Len(text) = 25
    /\ chunk_size = 10
    /\ step_window = 10

ThreeSlices == <<Slice(text, 0, 10), Slice(text, 10, 20), Slice(text, 20, 25)>>

C20_TwoSentences ==
    (/\ variant = "chroma.DynamicSizeDynamicStep"
     /\ text = HelloText
     /\ separators = HelloSeparators
     /\ window_size = 15
     /\ pc = "done")
        => /\ Len(returned) = 2
           /\ IsSubstring(Slice(HelloText, 0, 12), returned[1])
           /\ IsSubstring(Slice(HelloText, 13, 27), returned[2])

\* The indices of the chunks longer than the minimum length, and the number
\* of them up to index k.
KeptIndices(chunks) == {k \in 1..Len(chunks) : Len(chunks[k]) > MinimumLength}

KeptUpTo(chunks, k) == Cardinality({j \in KeptIndices(chunks) : j <= k})

\* C21: the filter at the end of _split_text keeps exactly the chunks longer
\* than the minimum length, each at the rank it has among them in the list
\* the chunk loop produced, and filtering the returned list again changes
\* nothing.
C21_FilterIdempotent ==
    (pc = "done" /\ variant \in FilteredVariants)
        => /\ Len(returned) = Cardinality(KeptIndices(Emitted))
           /\ \A k \in KeptIndices(Emitted) : returned[KeptUpTo(Emitted, k)] = Emitted[k]
           /\ FilterShort(returned) = returned
           /\ FilterShort(FilterShort(Emitted)) = FilterShort(Emitted)

C21_Witness ==
    /\ pc = "done"
    /\ variant \in FilteredVariants
    /\ Len(returned) >= 2
    /\ returned[1] # returned[2]
    /\ Len(returned) < Len(Emitted)

\* The call run alone, to its return or its exception.
RECURSIVE RunAlone(_, _)
RunAlone(self, f) ==
    IF f.pc \in {"done", "raised"} THEN f ELSE RunAlone(self, _split_text(self, f))

Finished(f) == f.pc \in {"done", "raised"}

\* C22: of two calls of split_text whose steps interleave in any way, on one
\* splitter object or on two, each returns the chunks (or raises the
\* exception) that it returns when it runs alone, and no step of either
\* call changes an attribute of a splitter object.
C22_InvocationIndependence ==
    /\ [](/\ Finished(Frame) => Frame = RunAlone(Self, NewFrame(Self, text))
          /\ Finished(other.frame)
                => other.frame = RunAlone(OtherSelf, NewFrame(OtherSelf, other.frame.text)))
    /\ [][/\ UNCHANGED config
          /\ other'.self = other.self
          /\ other'.shared = other.shared]_vars

C22_Witness ==
    /\ other.shared
    /\ pc = "done"
    /\ other.frame.pc = "done"
    /\ text # other.frame.text
    /\ returned # <<>>
    /\ other.frame.returned # <<>>
    /\ returned # other.frame.returned

\* A pass over the working list that splits the fragments with a match of
\* the separator and carries the others, each at its place.
RECURSIVE CarriedPass(_, _, _)
CarriedPass(chunks, regex_separator, keep) ==
    IF chunks = <<>> THEN <<>>
    ELSE (IF re_search(regex_separator, Head(chunks))
          THEN DSDS_split_text_with_regex(Head(chunks), regex_separator, keep).val
          ELSE <<Head(chunks)>>)
             \o CarriedPass(Tail(chunks), regex_separator, keep)

\* A separator pass of the dynamic-size/dynamic-step splitter that has run
\* to its end.
PassDone ==
    /\ variant = "chroma.DynamicSizeDynamicStep"
    /\ pc = "start"
    /\ pc' = "start"
    /\ sep_idx' = sep_idx + 1

\* C23: in each separator pass of the dynamic-size/dynamic-step splitter a
\* fragment of the working list without a match of the current separator is
\* in the working list of the next pass, unchanged and at the same place
\* among the fragments.
C23_PassThrough ==
    [][PassDone
          => final_chunks' = CarriedPass(final_chunks,
                                 RegexSeparator(separators[sep_idx], is_separator_regex),
                                 keep_separator)]_vars

\* The fragments occur in txt one after the other from offset from on, each
\* at the first place at or after the end of the one before it.
RECURSIVE Located(_, _, _)
Located(frags, txt, from) ==
    IF frags = <<>> THEN TRUE
    ELSE LET p == Find(txt, Head(frags), from)
         IN p # -1 /\ Located(Tail(frags), txt, p + Len(Head(frags)))

\* C24: with keep_separator, after every separator pass of the
\* dynamic-size/dynamic-step splitter the fragments of the working list lie
\* in the text at increasing offsets without overlap, in the order of the
\* list: no pass reorders or duplicates text.
C24_DocumentOrder ==
    (/\ variant = "chroma.DynamicSizeDynamicStep"
     /\ pc = "start"
     /\ keep_separator)
        => Located(final_chunks, text, 0)

\* The offsets of the successive non-overlapping matches of a pattern of at
\* least one character, from offset pos on.
RECURSIVE MatchOffsets(_, _, _)
MatchOffsets(src, s, pos) ==
    LET p == NextMatch(src, s, pos)
    IN IF p = -1 THEN <<>> ELSE <<p>> \o MatchOffsets(src, s, p + Len(Atoms(src)))

\* The segmentation of the text by the chosen separator: the fragments as
\* <<begin, end>> offsets, the matched separator at the head of the
\* fragment that follows it with keep_separator and left out without; the
\* single characters for the empty separator, the whole text when no
\* separator is found.
FragmentSpans ==
    LET n == Len(text)
    IN IF ChosenIndex = 0 THEN << <<0, n>> >>
       ELSE LET src == RegexSeparator(separators[ChosenIndex], is_separator_regex)
                m == Len(Atoms(src))
            IN IF m = 0 THEN [k \in 1..n |-> <<k - 1, k>>]
               ELSE LET ps == MatchOffsets(src, text, 0)
                        raw == [k \in 1..(Len(ps) + 1) |->
                                  << IF k = 1 THEN 0
                                     ELSE ps[k - 1] + (IF keep_separator THEN 0 ELSE m),
                                     IF k = Len(ps) + 1 THEN n ELSE ps[k] >>]
                        spans == SelectSeq(raw, LAMBDA span : span[1] < span[2])
                    IN IF spans = <<>> THEN << <<0, n>> >> ELSE spans

\* The ends that the chunk at offset from may have: from + chunk_size cut at
\* the end of the text, the next fragment end at or after from + chunk_size,
\* or the end of the nearest fragment that begins at or after
\* from + chunk_size.
SnappedEnds(from) ==
    LET end == from + chunk_size
        spans == FragmentSpans
        later == {k \in 1..Len(spans) : spans[k][2] >= end}
        after == {k \in 1..Len(spans) : spans[k][1] >= end}
    IN {Min(end, Len(text))}
         \cup {spans[k][2] : k \in {j \in later : \A i \in later : j <= i}}
         \cup {spans[k][2] : k \in {j \in after : \A i \in after : j <= i}}

\* C25: in the dynamic-size/fixed-step splitter the chunk of each start
\* offset is text[start:end] with end either start + chunk_size (or the end
\* of the text) or the next split point after start + chunk_size, the end
\* of a fragment of the segmentation by the chosen separator: an extended
\* end is always a fragment boundary.
C25_EndSnapping ==
    (/\ variant = "ollama.DynamicSizeFixedStep"
     /\ pc \in {"chunking", "chunked"}
     /\ step_window >= 0)
        => \A k \in 1..Len(final_chunks) :
               \E end \in SnappedEnds((k - 1) * step_window) :
                   final_chunks[k] = Slice(text, (k - 1) * step_window, end)

\* The separators, by index, that have no match anywhere in the text.
Unmatched ==
    {i \in 1..Len(separators) :
        LET src == RegexSeparator(separators[i], is_separator_regex)
        IN ValidRegex(src) /\ ~re_search(src, text)}

\* What the collapsed call returns: the whole text if it fills the window
\* and passes the filter, nothing otherwise.
CollapsedResult ==
    IF Len(text) >= window_size /\ Len(text) > MinimumLength THEN <<text>> ELSE <<>>

\* The working list is empty once the pass of an unmatched separator is
\* over, the fallback restores [text], and the call returns the collapsed
\* result.
Collapsed ==
    /\ (pc = "start" /\ \E i \in Unmatched : i < sep_idx) => final_chunks = <<>>
    /\ pc \in {"chunked", "done"} => final_chunks = <<text>>
    /\ pc = "done" => returned = CollapsedResult

\* C26 as stated: when a separator of the dynamic-size/dynamic-step splitter
\* has no match anywhere in the text, the working list is empty from the
\* pass of that separator on, the fallback replaces it by [text], and
\* split_text returns [text] if len(text) >= window_size and len(text) > 10,
\* and [] otherwise.
C26_Collapse ==
    (variant = "chroma.DynamicSizeDynamicStep" /\ language = "none" /\ Unmatched # {})
        => (pc # "raised" /\ Collapsed)

\* The while loop of DynamicSizeFixedStepSplitter is running on a text that
\* is not empty.
InLoop ==
    /\ variant = "ollama.DynamicSizeFixedStep"
    /\ pc = "chunking"
    /\ text # <<>>

OtherStepSizes == StepSizes \cup {0, MaxStep}

IsPrefix(p, chunk) == Len(p) <= Len(chunk) /\ SubSeq(chunk, 1, Len(p)) = p

ReturnedBy(v) ==
    LET chunks == RangeChunks(text, 0, InitChunkSize(v, kwargs_chunk_size), step_window)
    IN IF v \in FilteredVariants THEN FilterShort(chunks) ELSE chunks

\* C30: a call of split_text that returns from one of the two
\* FixedSizeFixedStep splitters returns, in the rag-chroma-private variant,
\* the chunks that the rag-ollama-multi-query variant built with the same
\* chunk size and step returns for the same text with every chunk of at most
\* 10 characters removed, whatever the separators and keep_separator.
C30_VariantsDifferByFilter ==
    (/\ variant \in FixedStepVariants
     /\ pc = "done"
     /\ step_window >= 1)
        => /\ returned = ReturnedBy(variant)
           /\ ReturnedBy("chroma.FixedSizeFixedStep")
                  = FilterShort(ReturnedBy("ollama.FixedSizeFixedStep"))
====
